---- MODULE Spec2Model ----
(***************************************************************************)
(* The cats database tools: the Writer (src/insert_data-db.py) and the     *)
(* Reader (src/retrieve-data-db.py), run one after the other against one   *)
(* PostgreSQL database.                                                    *)
(*                                                                         *)
(* Text is a sequence of one-character strings, so that strip(), lower(),  *)
(* int(), float() and strptime() are computed character by character.      *)
(* A Python value is a record tagged by its type: None, str, int, float,   *)
(* bool or date.                                                           *)
(***************************************************************************)
EXTENDS Integers, Sequences, FiniteSets, TLC

\* ------------------------------------------------------------------ bounds

\* Rows the cats_id sequence hands out in one behaviour: an INSERT past it fails.
MaxId == 2

\* The largest count typed at "How many cats" in options 2 and 3.
MaxCount == 2

\* ------------------------------------------------------------- Python values

None == [t |-> "none"]
Unset == [t |-> "unset"]
Str(s) == [t |-> "str", v |-> s]
Int_(n) == [t |-> "int", v |-> n]
Bool(b) == [t |-> "bool", v |-> b]
Date(y, m, d) == [t |-> "date", y |-> y, m |-> m, d |-> d]
\* A finite float is m / 10^e with no trailing zero in the fraction.
Fin(m, e) == [t |-> "float", k |-> "fin", m |-> m, e |-> e]
NaN == [t |-> "float", k |-> "nan", m |-> 0, e |-> 0]
PosInf == [t |-> "float", k |-> "inf", m |-> 0, e |-> 0]
NegInf == [t |-> "float", k |-> "ninf", m |-> 0, e |-> 0]

RECURSIVE Pow10(_)
Pow10(e) == IF e = 0 THEN 1 ELSE 10 * Pow10(e - 1)

\* Python's x < n and x > n for a float x and an integer n: every comparison
\* with NaN is False.
FloatLt(x, n) ==
    CASE x.k = "nan" -> FALSE
      [] x.k = "inf" -> FALSE
      [] x.k = "ninf" -> TRUE
      [] OTHER -> x.m < n * Pow10(x.e)

FloatGt(x, n) ==
    CASE x.k = "nan" -> FALSE
      [] x.k = "inf" -> TRUE
      [] x.k = "ninf" -> FALSE
      [] OTHER -> x.m > n * Pow10(x.e)

\* ---------------------------------------------------------------- str methods

IsSpace(c) == c \in {" ", "\t"}

RECURSIVE LStrip(_)
LStrip(s) == IF s # <<>> /\ IsSpace(Head(s)) THEN LStrip(Tail(s)) ELSE s

RECURSIVE RStrip(_)
RStrip(s) ==
    IF s # <<>> /\ IsSpace(s[Len(s)]) THEN RStrip(SubSeq(s, 1, Len(s) - 1)) ELSE s

\* str.strip()
Strip(s) == RStrip(LStrip(s))

LowerChar(c) ==
    CASE c = "Y" -> "y" [] c = "E" -> "e" [] c = "S" -> "s" [] c = "N" -> "n"
      [] c = "O" -> "o" [] c = "M" -> "m" [] c = "C" -> "c" [] c = "P" -> "p"
      [] c = "T" -> "t" [] c = "A" -> "a" [] c = "I" -> "i" [] c = "F" -> "f"
      [] c = "B" -> "b" [] c = "R" -> "r" [] c = "L" -> "l" [] c = "U" -> "u"
      [] OTHER -> c

\* str.lower()
Lower(s) == [i \in 1..Len(s) |-> LowerChar(s[i])]

Digits == {"0", "1", "2", "3", "4", "5", "6", "7", "8", "9"}

DigitVal(c) ==
    CASE c = "0" -> 0 [] c = "1" -> 1 [] c = "2" -> 2 [] c = "3" -> 3
      [] c = "4" -> 4 [] c = "5" -> 5 [] c = "6" -> 6 [] c = "7" -> 7
      [] c = "8" -> 8 [] c = "9" -> 9

AllDigits(s) == s # <<>> /\ \A i \in 1..Len(s) : s[i] \in Digits

RECURSIVE DigitsVal(_)
DigitsVal(s) ==
    IF s = <<>> THEN 0
    ELSE 10 * DigitsVal(SubSeq(s, 1, Len(s) - 1)) + DigitVal(s[Len(s)])

\* int(text): surrounding whitespace, an optional sign, decimal digits.
\* ok = FALSE stands for the ValueError.
IntParse(s) ==
    LET b == Strip(s)
        signed == b # <<>> /\ Head(b) \in {"+", "-"}
        body == IF signed THEN Tail(b) ELSE b
    IN  IF AllDigits(body)
        THEN [ok |-> TRUE,
              v |-> IF signed /\ Head(b) = "-" THEN 0 - DigitsVal(body)
                    ELSE DigitsVal(body)]
        ELSE [ok |-> FALSE, v |-> 0]

\* The position of the first c in s, 0 when there is none.
RECURSIVE IndexOf(_, _)
IndexOf(s, c) ==
    IF s = <<>> THEN 0
    ELSE IF Head(s) = c THEN 1
    ELSE LET r == IndexOf(Tail(s), c) IN IF r = 0 THEN 0 ELSE r + 1

\* m / 10^e with the trailing zeros of the fraction dropped.
RECURSIVE Normal(_, _)
Normal(m, e) == IF e > 0 /\ m % 10 = 0 THEN Normal(m \div 10, e - 1) ELSE Fin(m, e)

\* float(text): surrounding whitespace, an optional sign, then nan, inf,
\* infinity (any case) or digits with an optional fraction.  ok = FALSE
\* stands for the ValueError.
FloatParse(s) ==
    LET b == Lower(Strip(s))
        signed == b # <<>> /\ Head(b) \in {"+", "-"}
        neg == signed /\ Head(b) = "-"
        body == IF signed THEN Tail(b) ELSE b
        dot == IndexOf(body, ".")
        ip == IF dot = 0 THEN body ELSE SubSeq(body, 1, dot - 1)
        fp == IF dot = 0 THEN <<>> ELSE SubSeq(body, dot + 1, Len(body))
        wellFormed == /\ ip \o fp # <<>>
                      /\ \A i \in 1..Len(ip) : ip[i] \in Digits
                      /\ \A i \in 1..Len(fp) : fp[i] \in Digits
        mag == DigitsVal(ip \o fp)
    IN  CASE body = <<"n", "a", "n">> -> [ok |-> TRUE, v |-> NaN]
          [] body \in {<<"i", "n", "f">>, <<"i", "n", "f", "i", "n", "i", "t", "y">>} ->
                [ok |-> TRUE, v |-> IF neg THEN NegInf ELSE PosInf]
          [] OTHER ->
                IF wellFormed
                THEN [ok |-> TRUE,
                      v |-> Normal(IF neg THEN 0 - mag ELSE mag, Len(fp))]
                ELSE [ok |-> FALSE, v |-> NaN]

IsLeap(y) == (y % 4 = 0 /\ y % 100 # 0) \/ y % 400 = 0

DaysInMonth(y, m) ==
    CASE m \in {4, 6, 9, 11} -> 30
      [] m = 2 -> IF IsLeap(y) THEN 29 ELSE 28
      [] OTHER -> 31

\* datetime.strptime(text, '%Y-%m-%d').date(): four digits, one or two digits
\* of a month, one or two digits of a day, and a date of the calendar.
\* ok = FALSE stands for the ValueError.
ParseDate(s) ==
    LET d1 == IndexOf(s, "-")
        rest == IF d1 = 0 THEN <<>> ELSE SubSeq(s, d1 + 1, Len(s))
        d2 == IndexOf(rest, "-")
        ys == IF d1 = 0 THEN <<>> ELSE SubSeq(s, 1, d1 - 1)
        ms == IF d2 = 0 THEN <<>> ELSE SubSeq(rest, 1, d2 - 1)
        ds == IF d2 = 0 THEN <<>> ELSE SubSeq(rest, d2 + 1, Len(rest))
        shaped == /\ d1 # 0 /\ d2 # 0
                  /\ AllDigits(ys) /\ Len(ys) = 4
                  /\ AllDigits(ms) /\ Len(ms) <= 2
                  /\ AllDigits(ds) /\ Len(ds) <= 2
        y == DigitsVal(ys)
        m == DigitsVal(ms)
        d == DigitsVal(ds)
    IN  IF shaped /\ y >= 1 /\ m \in 1..12 /\ d >= 1 /\ d <= DaysInMonth(y, m)
        THEN [ok |-> TRUE, v |-> Date(y, m, d)]
        ELSE [ok |-> FALSE, v |-> None]

\* date.today()
Today == Date(2026, 11, 3)


\* ------------------------------------------------------------------- texts

TxtTom == <<"T", "o", "m">>
TxtFluffy == <<"F", "l", "u", "f", "f", "y">>
TxtMaineCoon == <<"M", "a", "i", "n", "e", " ", "C", "o", "o", "n">>
TxtPersian == <<"P", "e", "r", "s", "i", "a", "n">>
TxtBlack == <<"B", "l", "a", "c", "k">>
TxtCalm == <<"C", "a", "l", "m">>
TxtMaine == <<"M", "a", "i", "n", "e">>

\* ------------------------------------------------------------------- state

VARIABLES
    table,        \* the committed rows of cats, in id order
    tableExists,  \* whether the database holds a cats table
    nextId,       \* the next value of the id sequence
    txFailed,     \* the connection's transaction is in the failed state
    prog,         \* the tool that runs: "none", "writer" or "reader"
    pc,           \* where main stands
    conn,         \* the connection handle of this run: "none", "open", "closed"
    exit,         \* how the last run ended: "running", "0", "1", "KeyboardInterrupt"
    opt,          \* Writer: the menu option main is inside of, "" at the menu
    count,        \* Writer: count of options 2 and 3
    cat_data,     \* Writer: the dictionary get_user_input_for_cat fills
    cats_data,    \* Writer: the batch of options 2 and 3
    msg,          \* what the last step reported, "" when it reported nothing
    last,         \* Writer: what the last confirmed insert attempt did
    typed,        \* Writer: what the last input() gave
    raws,         \* Writer: the lines accepted for each record of this option
    ops,          \* Reader: the operations main has called in the last run, in order
    cnt,          \* Reader: count of main
    listing       \* Reader: the blocks display_all_cats printed

vars == <<table, tableExists, nextId, txFailed, prog, pc, conn, exit, opt, count,
          cat_data, cats_data, msg, last, typed, raws, ops, cnt, listing>>

dbVars == <<table, tableExists, nextId>>
writerVars == <<opt, count, cat_data, cats_data, last, typed, raws>>
readerVars == <<ops, cnt, listing>>

EmptyCat ==
    [name |-> Unset, breed |-> Unset, age |-> Unset, color |-> Unset,
     weight_kg |-> Unset, is_indoor |-> Unset, adoption_date |-> Unset,
     description |-> Unset]

NoAttempt ==
    [confirmed |-> FALSE, opt |-> "", batch |-> <<>>, raws |-> <<>>, attempts |-> <<>>,
     success_count |-> 0, calls |-> <<>>, added |-> 0]

\* The lines typed for one record, field by field.
EmptyRaw ==
    [name |-> <<>>, breed |-> <<>>, age |-> <<>>, color |-> <<>>, weight |-> <<>>,
     indoor |-> <<>>, date |-> <<>>, description |-> <<>>]

\* The line ev, accepted at the prompt of field, joins the lines of the record
\* under entry; the name starts a record.
Accept(rs, field, ev) ==
    IF field = "name" THEN Append(rs, [EmptyRaw EXCEPT !.name = ev.s])
    ELSE [rs EXCEPT ![Len(rs)][field] = ev.s]

\* ---------------------------------------------------------------- database
\* The connection is psycopg2's default: no autocommit and no savepoint, so
\* the statements of one handler share one PostgreSQL transaction.  A
\* statement the server rejects puts that transaction in the failed state:
\* every later statement is rejected too, until the transaction ends, and
\* COMMIT of a failed transaction rolls it back.

\* The connection's view: the committed rows, the rows this transaction has
\* inserted, the failed flag and the sequence.
Db(rows, failed, id) == [table |-> rows, pending |-> <<>>, failed |-> failed, nextId |-> id]

RowOf(id, cat) ==
    [id |-> id, name |-> cat.name, breed |-> cat.breed, age |-> cat.age,
     color |-> cat.color, weight_kg |-> cat.weight_kg, is_indoor |-> cat.is_indoor,
     adoption_date |-> cat.adoption_date, description |-> cat.description]

\* cursor.execute(INSERT ... RETURNING id): accepted says whether the server
\* takes the row.  ok = FALSE stands for the psycopg2.Error.
ExecuteInsert(db, cat, accepted) ==
    IF db.failed
    THEN [db |-> db, ok |-> FALSE, id |-> 0]
    ELSE IF ~tableExists \/ ~accepted \/ db.nextId > MaxId
    THEN [db |-> [db EXCEPT !.failed = TRUE], ok |-> FALSE, id |-> 0]
    ELSE [db |-> [db EXCEPT !.pending = Append(@, RowOf(db.nextId, cat)),
                            !.nextId = @ + 1],
          ok |-> TRUE, id |-> db.nextId]

\* Commit with the inserted rows taking the place of the committed ones.
CommitReplacesRows(db) ==
    [db EXCEPT !.table = IF db.failed THEN @ ELSE db.pending,
               !.pending = <<>>, !.failed = FALSE]

\* connection.commit()
Commit(db) ==
    [db EXCEPT !.table = IF db.failed THEN @ ELSE @ \o db.pending,
               !.pending = <<>>, !.failed = FALSE]

\* connection.rollback()
Rollback(db) == [db EXCEPT !.pending = <<>>, !.failed = FALSE]

\* ------------------------------------------------------------------ Writer

\* insert_single_cat: the attempt and its boolean result.
insert_single_cat(db, cat, accepted) ==
    LET r == ExecuteInsert(db, cat, accepted)
    IN  [db |-> r.db, ok |-> r.ok, attempt |-> [cat |-> cat, ok |-> r.ok, id |-> r.id]]

\* insert_multiple_cats: every record of cats_data in order, from index i on,
\* counting the successes.
RECURSIVE InsertFrom(_, _, _, _, _, _)
InsertFrom(db, cats, accepted, i, success_count, attempts) ==
    IF i > Len(cats)
    THEN [db |-> db, success_count |-> success_count, attempts |-> attempts]
    ELSE LET r == insert_single_cat(db, cats[i], accepted[i])
         IN  InsertFrom(r.db, cats, accepted, i + 1,
                        IF r.ok THEN success_count + 1 ELSE success_count,
                        Append(attempts, r.attempt))

insert_multiple_cats(db, cats, accepted) == InsertFrom(db, cats, accepted, 1, 0, <<>>)

\* What input() gives: a line, or the KeyboardInterrupt of the operator's
\* Ctrl-C, or the EOFError of a closed standard input.
Line(s) == [k |-> "line", s |-> s]
KeyboardInterrupt == [k |-> "KeyboardInterrupt", s |-> <<>>]
EOFError == [k |-> "EOFError", s |-> <<>>]
NoEvent == [k |-> "none", s |-> <<>>]
Events(tokens) == {Line(s) : s \in tokens} \cup {KeyboardInterrupt, EOFError}

\* finally: if connection: connection.close()
WriterFinally(c) == IF c # "none" THEN "closed" ELSE c

\* main is left: the finally block closes the connection and the process ends.
WriterEnd(status, m) ==
    /\ prog' = "none"
    /\ pc' = "writer_exit"
    /\ conn' = WriterFinally(conn)
    /\ exit' = status
    /\ msg' = m
    /\ opt' = ""
    /\ count' = 0
    /\ cat_data' = EmptyCat
    /\ cats_data' = <<>>
    /\ raws' = <<>>
    /\ txFailed' = FALSE
    /\ UNCHANGED <<dbVars, readerVars>>

\* The option's try block is left for the next iteration of while True.
BackToMenu(m) ==
    /\ pc' = "menu"
    /\ opt' = ""
    /\ msg' = m
    /\ count' = 0
    /\ cat_data' = EmptyCat
    /\ cats_data' = <<>>
    /\ raws' = <<>>
    /\ UNCHANGED <<prog, conn, exit, txFailed, dbVars, readerVars>>

\* An exception raised inside the try block of option opt ("" at the menu
\* prompt, which only the outer try encloses).  Options 1 and 2 handle
\* ValueError and KeyboardInterrupt, option 3 handles ValueError only; the
\* outer handler takes every Exception, rolls back and falls into finally;
\* KeyboardInterrupt is no Exception and leaves main through finally.
Raise(exc, text) ==
    CASE exc = "ValueError" /\ opt = "1" ->
            BackToMenu(IF text = "Cat name is required!"
                       THEN "Error: Cat name is required!" ELSE "Error")
      [] exc = "ValueError" /\ opt \in {"2", "3"} ->
            BackToMenu("Please enter a valid number")
      [] exc = "KeyboardInterrupt" /\ opt \in {"1", "2"} ->
            BackToMenu("Operation cancelled by user.")
      [] exc = "KeyboardInterrupt" /\ opt \notin {"1", "2"} ->
            WriterEnd("KeyboardInterrupt", msg)
      [] OTHER ->
            WriterEnd("0", "An unexpected error occurred")

\* connect_to_database and main's first lines: a handle and a cursor, or
\* sys.exit(1) with no handle.
WriterStart ==
    /\ prog = "none"
    /\ \E connected \in BOOLEAN :
          IF connected
          THEN /\ prog' = "writer"
               /\ pc' = "menu"
               /\ conn' = "open"
               /\ exit' = "running"
               /\ msg' = "Successfully connected to PostgreSQL database!"
          ELSE /\ prog' = "none"
               /\ pc' = "writer_exit"
               /\ conn' = "none"
               /\ exit' = "1"
               /\ msg' = "Error connecting to PostgreSQL database"
    /\ opt' = ""
    /\ count' = 0
    /\ cat_data' = EmptyCat
    /\ cats_data' = <<>>
    /\ last' = NoAttempt
    /\ typed' = NoEvent
    /\ raws' = <<>>
    /\ txFailed' = FALSE
    /\ ops' = <<>>
    /\ cnt' = 0
    /\ listing' = <<>>
    /\ UNCHANGED dbVars

\* choice = input("Enter your choice (1-4): ").strip() and its dispatch.
Menu(tokens) ==
    /\ prog = "writer" /\ pc = "menu"
    /\ \E e \in Events(tokens) :
          typed' = e /\ (
          IF e.k # "line" THEN Raise(e.k, "") /\ UNCHANGED last
          ELSE LET choice == Strip(e.s) IN
               CASE choice = <<"1">> ->
                      /\ opt' = "1" /\ pc' = "name" /\ last' = NoAttempt
                      /\ msg' = ""
                      /\ UNCHANGED <<prog, conn, exit, txFailed, count, cat_data,
                                     cats_data, raws, dbVars, readerVars>>
                 [] choice \in {<<"2">>, <<"3">>} ->
                      /\ opt' = choice[1] /\ pc' = "count" /\ last' = NoAttempt
                      /\ msg' = ""
                      /\ UNCHANGED <<prog, conn, exit, txFailed, count, cat_data,
                                     cats_data, raws, dbVars, readerVars>>
                 [] choice = <<"4">> ->
                      WriterEnd("0", "Goodbye!") /\ UNCHANGED last
                 [] OTHER ->
                      /\ BackToMenu("Invalid choice. Please enter 1, 2, 3, or 4.")
                      /\ UNCHANGED last)

\* The records generate_random_cats draws: of its vocabularies and ranges the
\* model keeps one value each, and two breeds.
RandomCats ==
    { [name |-> Str(TxtFluffy), breed |-> Str(b), age |-> Int_(15),
       color |-> Str(TxtBlack), weight_kg |-> Fin(25, 1), is_indoor |-> Bool(FALSE),
       adoption_date |-> Today, description |-> Str(TxtCalm)]
      : b \in {TxtPersian, TxtMaineCoon} }

\* generate_random_cats(count)
generate_random_cats(n) == [1..n -> RandomCats]

\* count = int(input(...)) of options 2 and 3, the count <= 0 check, and in
\* option 3 the generation of the batch.
CountPrompt(tokens) ==
    /\ prog = "writer" /\ pc = "count"
    /\ UNCHANGED last
    /\ \E e \in Events(tokens) :
          typed' = e /\ (
          IF e.k # "line" THEN Raise(e.k, "")
          ELSE LET r == IntParse(e.s) IN
               IF ~r.ok THEN Raise("ValueError", "invalid literal for int()")
               ELSE IF r.v <= 0 THEN BackToMenu("Number must be greater than 0")
               ELSE /\ count' = r.v
                    /\ IF opt = "2"
                       THEN /\ cats_data' = <<>>
                            /\ pc' = "name"
                       ELSE /\ cats_data' \in generate_random_cats(r.v)
                            /\ pc' = "confirm"
                    /\ msg' = ""
                    /\ UNCHANGED <<prog, conn, exit, txFailed, opt, cat_data, raws,
                                   dbVars, readerVars>>)

\* ------------------------------------------- Writer: get_user_input_for_cat

\* The next prompt of get_user_input_for_cat, with the dictionary as filled.
Step(to, cd) ==
    /\ pc' = to
    /\ cat_data' = cd
    /\ msg' = ""
    /\ raws' = Accept(raws, pc, typed')
    /\ UNCHANGED <<prog, conn, exit, txFailed, opt, count, cats_data, last,
                   dbVars, readerVars>>

\* The same prompt again, after a message.
Reprompt(m, cd) ==
    /\ msg' = m
    /\ cat_data' = cd
    /\ UNCHANGED <<prog, pc, conn, exit, txFailed, opt, count, cats_data, last,
                   raws, dbVars, readerVars>>

\* input(...).strip() or None
StripOrNone(s) == IF Strip(s) = <<>> THEN None ELSE Str(Strip(s))

\* cat_data['name'] = input("Cat name: ").strip(), and the ValueError of an
\* empty name.
NamePrompt(tokens) ==
    /\ prog = "writer" /\ pc = "name"
    /\ \E e \in Events(tokens) :
          typed' = e /\ (
          IF e.k # "line" THEN Raise(e.k, "") /\ UNCHANGED last
          ELSE IF Strip(e.s) = <<>>
          THEN Raise("ValueError", "Cat name is required!") /\ UNCHANGED last
          ELSE Step("breed", [EmptyCat EXCEPT !.name = Str(Strip(e.s))]))

BreedPrompt(tokens) ==
    /\ prog = "writer" /\ pc = "breed"
    /\ \E e \in Events(tokens) :
          typed' = e /\ (
          IF e.k # "line" THEN Raise(e.k, "") /\ UNCHANGED last
          ELSE Step("age", [cat_data EXCEPT !.breed = StripOrNone(e.s)]))

\* AgeOutOfRange with the upper bound off by one.
AgeOutOfRangeOffByOne(age) == age # None /\ (age.v < 0 \/ age.v > 31)

\* if cat_data['age'] is not None and (cat_data['age'] < 0 or cat_data['age'] > 30)
AgeOutOfRange(age) == age # None /\ (age.v < 0 \/ age.v > 30)

\* One turn of the age loop: int() of a non-empty line; the value is stored
\* before it is checked.
AgePrompt(tokens) ==
    /\ prog = "writer" /\ pc = "age"
    /\ \E e \in Events(tokens) :
          typed' = e /\ (
          IF e.k # "line" THEN Raise(e.k, "") /\ UNCHANGED last
          ELSE LET age_input == Strip(e.s)
                   r == IntParse(age_input)
                   age == IF age_input = <<>> THEN None ELSE Int_(r.v)
               IN  IF age_input # <<>> /\ ~r.ok
                   THEN Reprompt("Please enter a valid number for age", cat_data)
                   ELSE IF AgeOutOfRange(age)
                   THEN Reprompt("Age must be between 0 and 30 years",
                                 [cat_data EXCEPT !.age = age])
                   ELSE Step("color", [cat_data EXCEPT !.age = age]))

ColorPrompt(tokens) ==
    /\ prog = "writer" /\ pc = "color"
    /\ \E e \in Events(tokens) :
          typed' = e /\ (
          IF e.k # "line" THEN Raise(e.k, "") /\ UNCHANGED last
          ELSE Step("weight", [cat_data EXCEPT !.color = StripOrNone(e.s)]))

\* if cat_data['weight_kg'] < 0 or cat_data['weight_kg'] > 20
WeightOutOfRange(w) == FloatLt(w, 0) \/ FloatGt(w, 20)

\* One turn of the weight loop: float() of a non-empty line; the value is
\* stored before it is checked.
WeightPrompt(tokens) ==
    /\ prog = "writer" /\ pc = "weight"
    /\ \E e \in Events(tokens) :
          typed' = e /\ (
          IF e.k # "line" THEN Raise(e.k, "") /\ UNCHANGED last
          ELSE LET weight_input == Strip(e.s)
                   r == FloatParse(weight_input)
               IN  IF weight_input = <<>>
                   THEN Step("indoor", [cat_data EXCEPT !.weight_kg = None])
                   ELSE IF ~r.ok
                   THEN Reprompt("Please enter a valid number for weight", cat_data)
                   ELSE IF WeightOutOfRange(r.v)
                   THEN Reprompt("Weight must be between 0 and 20 kg",
                                 [cat_data EXCEPT !.weight_kg = r.v])
                   ELSE Step("indoor", [cat_data EXCEPT !.weight_kg = r.v]))

\* One turn of the indoor loop.
IndoorPrompt(tokens) ==
    /\ prog = "writer" /\ pc = "indoor"
    /\ \E e \in Events(tokens) :
          typed' = e /\ (
          IF e.k # "line" THEN Raise(e.k, "") /\ UNCHANGED last
          ELSE LET indoor_input == Lower(Strip(e.s)) IN
               CASE indoor_input \in {<<"y">>, <<"y", "e", "s">>, <<"1">>,
                                      <<"t", "r", "u", "e">>} ->
                      Step("date", [cat_data EXCEPT !.is_indoor = Bool(TRUE)])
                 [] indoor_input \in {<<"n">>, <<"n", "o">>, <<"0">>,
                                      <<"f", "a", "l", "s", "e">>} ->
                      Step("date", [cat_data EXCEPT !.is_indoor = Bool(FALSE)])
                 [] indoor_input = <<>> ->
                      Step("date", [cat_data EXCEPT !.is_indoor = Bool(TRUE)])
                 [] OTHER ->
                      Reprompt("Please enter 'y' for yes or 'n' for no", cat_data))

\* One turn of the adoption date loop.
DatePrompt(tokens) ==
    /\ prog = "writer" /\ pc = "date"
    /\ \E e \in Events(tokens) :
          typed' = e /\ (
          IF e.k # "line" THEN Raise(e.k, "") /\ UNCHANGED last
          ELSE LET date_input == Strip(e.s)
                   r == ParseDate(date_input)
               IN  IF date_input = <<>>
                   THEN Step("description", [cat_data EXCEPT !.adoption_date = Today])
                   ELSE IF r.ok
                   THEN Step("description", [cat_data EXCEPT !.adoption_date = r.v])
                   ELSE Reprompt("Please enter date in YYYY-MM-DD format", cat_data))

\* The description, and the return of the dictionary to main: option 1 goes
\* on to its confirmation, option 2 appends to cats_data and loops.
DescriptionPrompt(tokens) ==
    /\ prog = "writer" /\ pc = "description"
    /\ \E e \in Events(tokens) :
          typed' = e /\ (
          IF e.k # "line" THEN Raise(e.k, "") /\ UNCHANGED last
          ELSE LET cd == [cat_data EXCEPT !.description = StripOrNone(e.s)] IN
               IF opt = "1"
               THEN Step("confirm", cd)
               ELSE /\ cats_data' = Append(cats_data, cd)
                    /\ cat_data' = EmptyCat
                    /\ pc' = IF Len(cats_data) + 1 < count THEN "name" ELSE "confirm"
                    /\ msg' = ""
                    /\ raws' = Accept(raws, pc, typed')
                    /\ UNCHANGED <<prog, conn, exit, txFailed, opt, count, last,
                                   dbVars, readerVars>>)

\* ------------------------------------------------- Writer: the transaction

\* if insert_single_cat(cursor, cat_data): commit, else: rollback
SingleTransaction(ok) == IF ok THEN "commit" ELSE "rollback"

\* BatchTransaction with the test success_count >= 0.
BatchTransactionAlwaysCommits(success_count) ==
    IF success_count >= 0 THEN "commit" ELSE "rollback"

\* if success_count > 0: commit, else: rollback
BatchTransaction(success_count) == IF success_count > 0 THEN "commit" ELSE "rollback"

EndTransaction(db, call) == IF call = "commit" THEN Commit(db) ELSE Rollback(db)

\* Option 1 after its confirmation: the insert, then commit or rollback.
SingleAttempt(db, cat, accepted) ==
    LET r == insert_single_cat(db, cat, accepted)
        call == SingleTransaction(r.ok)
    IN  [db |-> EndTransaction(r.db, call),
         attempts |-> <<r.attempt>>,
         success_count |-> IF r.ok THEN 1 ELSE 0,
         calls |-> <<call>>]

\* Options 2 and 3 after their confirmation: the batch, then commit or rollback.
BatchAttempt(db, cats, accepted) ==
    LET r == insert_multiple_cats(db, cats, accepted)
        call == BatchTransaction(r.success_count)
    IN  [db |-> EndTransaction(r.db, call),
         attempts |-> r.attempts,
         success_count |-> r.success_count,
         calls |-> <<call>>]

\* ConfirmIsYes with every line taken for a yes.
ConfirmIsAnything(confirm) == TRUE

\* if confirm in ['y', 'yes']
ConfirmIsYes(confirm) == confirm \in {<<"y">>, <<"y", "e", "s">>}

\* confirm = input(...).strip().lower() of the three options, and what
\* follows it.
ConfirmPrompt(tokens) ==
    /\ prog = "writer" /\ pc = "confirm"
    /\ \E e \in Events(tokens) :
          typed' = e /\ (
          IF e.k # "line" THEN Raise(e.k, "") /\ UNCHANGED last
          ELSE IF ~ConfirmIsYes(Lower(Strip(e.s)))
          THEN /\ BackToMenu("insertion cancelled.")
               /\ UNCHANGED last
          ELSE \E accepted \in [1..(IF opt = "1" THEN 1 ELSE Len(cats_data)) -> BOOLEAN] :
               LET db == Db(table, txFailed, nextId)
                   a == IF opt = "1"
                        THEN SingleAttempt(db, cat_data, accepted[1])
                        ELSE BatchAttempt(db, cats_data, accepted)
               IN  /\ table' = a.db.table
                   /\ nextId' = a.db.nextId
                   /\ txFailed' = a.db.failed
                   /\ last' = [confirmed |-> TRUE, opt |-> opt,
                               batch |-> IF opt = "1" THEN <<cat_data>> ELSE cats_data,
                               raws |-> raws, attempts |-> a.attempts,
                               success_count |-> a.success_count, calls |-> a.calls,
                               added |-> Len(a.db.table) - Len(table)]
                   /\ raws' = <<>>
                   /\ pc' = "menu"
                   /\ opt' = ""
                   /\ count' = 0
                   /\ cat_data' = EmptyCat
                   /\ cats_data' = <<>>
                   /\ msg' = IF a.calls = <<"commit">>
                             THEN "committed" ELSE "Transaction rolled back."
                   /\ UNCHANGED <<prog, conn, exit, tableExists, readerVars>>)

\* ------------------------------------------------------------------ Reader

\* An entry of ops: the operation main called and what came of it.
Op(op, res) == [op |-> op, res |-> res]

\* What an operation that traps psycopg2.Error makes of its query.
Outcome(qerr) == IF txFailed \/ qerr THEN "reported" ELSE "ok"

\* ReaderFinally without the close.
ReaderFinallyLeavesOpen(c) == c

\* finally: if connection: connection.close()
ReaderFinally(c) == IF c # "none" THEN "closed" ELSE c

\* main is left: the finally block closes the connection and the process ends.
ReaderEnd(status, m) ==
    /\ prog' = "none"
    /\ pc' = "reader_exit"
    /\ conn' = ReaderFinally(conn)
    /\ exit' = status
    /\ msg' = m

\* connect_to_database and main's first lines.
ReaderStart ==
    /\ prog = "none"
    /\ \E connected \in BOOLEAN :
          IF connected
          THEN /\ prog' = "reader"
               /\ pc' = "check"
               /\ conn' = "open"
               /\ exit' = "running"
               /\ msg' = "Successfully connected to PostgreSQL database!"
          ELSE /\ prog' = "none"
               /\ pc' = "reader_exit"
               /\ conn' = "none"
               /\ exit' = "1"
               /\ msg' = "Error connecting to PostgreSQL database"
    /\ ops' = <<>>
    /\ cnt' = 0
    /\ listing' = <<>>
    /\ txFailed' = FALSE
    /\ UNCHANGED <<dbVars, writerVars>>

\* A query is rejected when the server rejects it (qerr) or the transaction
\* already is in the failed state.
Rejected(qerr) == txFailed \/ qerr

\* check_table_exists: the flag of the catalog, False on a psycopg2.Error.
check_table_exists(qerr) == IF Rejected(qerr) THEN FALSE ELSE tableExists

\* AfterCheck without the exit.
AfterCheckGoesOn(exists) == "info"

\* if not check_table_exists(cursor): ... sys.exit(1)
AfterCheck(exists) == IF exists THEN "info" ELSE "exit"

ReaderCheck ==
    /\ prog = "reader" /\ pc = "check"
    /\ \E qerr \in BOOLEAN :
          /\ ops' = Append(ops, Op("check_table_exists",
                                 IF check_table_exists(qerr) THEN "True" ELSE "False"))
          /\ txFailed' = Rejected(qerr)
          /\ IF AfterCheck(check_table_exists(qerr)) = "exit"
             THEN ReaderEnd("1", "Cats table does not exist in the database!")
             ELSE /\ pc' = "info"
                  /\ msg' = "Cats table found!"
                  /\ UNCHANGED <<prog, conn, exit>>
    /\ UNCHANGED <<cnt, listing, dbVars, writerVars>>

\* get_table_info: the columns of the catalog, or the report of a psycopg2.Error.
ReaderInfo ==
    /\ prog = "reader" /\ pc = "info"
    /\ \E qerr \in BOOLEAN :
          /\ ops' = Append(ops, Op("get_table_info", Outcome(qerr)))
          /\ txFailed' = Rejected(qerr)
          /\ msg' = IF Rejected(qerr) THEN "Error getting table info"
                    ELSE "Table Structure"
    /\ pc' = "count"
    /\ UNCHANGED <<prog, conn, exit, cnt, listing, dbVars, writerVars>>

\* get_cats_count: COUNT(*), or 0 on a psycopg2.Error.
get_cats_count(qerr) == IF Rejected(qerr) THEN 0 ELSE Len(table)

\* count = get_cats_count(cursor) and if count > 0.
ReaderCount ==
    /\ prog = "reader" /\ pc = "count"
    /\ \E qerr \in BOOLEAN :
          /\ ops' = Append(ops, Op("get_cats_count", Outcome(qerr)))
          /\ txFailed' = Rejected(qerr)
          /\ cnt' = get_cats_count(qerr)
          /\ msg' = IF Rejected(qerr) THEN "Error getting cats count"
                    ELSE "Total number of cats in database"
          /\ pc' = IF get_cats_count(qerr) > 0 THEN "list" ELSE "close"
    /\ UNCHANGED <<prog, conn, exit, listing, dbVars, writerVars>>

\* The block display_all_cats prints for a row.
Block(row) ==
    [id |-> row.id, name |-> row.name, breed |-> row.breed, age |-> row.age,
     color |-> row.color, weight |-> row.weight_kg,
     status |-> IF row.is_indoor = Bool(TRUE) THEN "Indoor" ELSE "Outdoor",
     adoption_date |-> row.adoption_date, description |-> row.description]

\* display_all_cats: one block per row in id order, or the report of a
\* psycopg2.Error.
display_all_cats(qerr) ==
    IF Rejected(qerr) THEN <<>> ELSE [i \in 1..Len(table) |-> Block(table[i])]

ReaderList ==
    /\ prog = "reader" /\ pc = "list"
    /\ \E qerr \in BOOLEAN :
          /\ ops' = Append(ops, Op("display_all_cats", Outcome(qerr)))
          /\ txFailed' = Rejected(qerr)
          /\ listing' = display_all_cats(qerr)
          /\ msg' = IF Rejected(qerr) THEN "Error displaying cats data"
                    ELSE IF table = <<>> THEN "No cats found in the database."
                    ELSE "All Cats Data"
    /\ pc' = "summary"
    /\ UNCHANGED <<prog, conn, exit, cnt, dbVars, writerVars>>

\* display_cats_summary: three queries, the first rejected one (failAt, or
\* the first when the transaction has failed) ends the function with a report.
\* f"{breed:<25}" of a None breed and f"{age_stats[0]:.1f}" of a None average
\* (no row has an age) raise TypeError, which the function does not catch.
display_cats_summary(rows, failAt) ==
    CASE txFailed \/ failAt = 1 -> "reported"
      [] \E i \in 1..Len(rows) : rows[i].breed = None -> "TypeError"
      [] failAt = 2 -> "reported"
      [] \A i \in 1..Len(rows) : rows[i].age = None -> "TypeError"
      [] failAt = 3 -> "reported"
      [] OTHER -> "ok"

\* What main does with an operation's outcome: a TypeError reaches main's
\* except Exception and ends the run through finally.
ReaderAfter(outcome, to, reported, shown) ==
    /\ txFailed' = (outcome = "reported")
    /\ IF outcome = "TypeError"
       THEN ReaderEnd("0", "An error occurred")
       ELSE /\ pc' = to
            /\ msg' = IF outcome = "reported" THEN reported ELSE shown
            /\ UNCHANGED <<prog, conn, exit>>

ReaderSummary ==
    /\ prog = "reader" /\ pc = "summary"
    /\ \E failAt \in 0..3 :
          /\ ops' = Append(ops, Op("display_cats_summary",
                                   display_cats_summary(table, failAt)))
          /\ ReaderAfter(display_cats_summary(table, failAt), "search",
                         "Error getting summary statistics", "Indoor vs Outdoor")
    /\ UNCHANGED <<cnt, listing, dbVars, writerVars>>

\* s holds sub as a substring.
Contains(s, sub) ==
    \E i \in 1..(Len(s) - Len(sub) + 1) : SubSeq(s, i, i + Len(sub) - 1) = sub

\* WHERE LOWER(breed) LIKE LOWER('%' || breed || '%')
Matches(row, breed) == row.breed # None /\ Contains(Lower(row.breed.v), Lower(breed))

\* search_cats_by_breed: the matching rows, or the report of a psycopg2.Error.
\* f"{age:<5}" and f"{color:<15}" of None raise TypeError, which the function
\* does not catch.
search_cats_by_breed(rows, breed, qerr) ==
    CASE Rejected(qerr) -> "reported"
      [] \E i \in 1..Len(rows) :
            Matches(rows[i], breed) /\ (rows[i].age = None \/ rows[i].color = None) ->
            "TypeError"
      [] OTHER -> "ok"

ReaderSearch ==
    /\ prog = "reader" /\ pc = "search"
    /\ \E qerr \in BOOLEAN :
          /\ ops' = Append(ops, Op("search_cats_by_breed",
                                   search_cats_by_breed(table, TxtMaine, qerr)))
          /\ ReaderAfter(search_cats_by_breed(table, TxtMaine, qerr), "close",
                         "Error searching cats by breed", "Cats with breed containing")
    /\ UNCHANGED <<cnt, listing, dbVars, writerVars>>

\* cursor.close(), the finally block and the end of main.
ReaderClose ==
    /\ prog = "reader" /\ pc = "close"
    /\ ReaderEnd("0", "Database connection closed.")
    /\ txFailed' = FALSE
    /\ UNCHANGED <<ops, cnt, listing, dbVars, writerVars>>

\* ----------------------------------------------------------------- inputs

DigitChar(n) ==
    CASE n = 0 -> "0" [] n = 1 -> "1" [] n = 2 -> "2" [] n = 3 -> "3" [] n = 4 -> "4"
      [] n = 5 -> "5" [] n = 6 -> "6" [] n = 7 -> "7" [] n = 8 -> "8" [] OTHER -> "9"

MenuInputs == {<<"1">>, <<"2">>, <<" ", "3">>, <<"4">>, <<"5">>}
CountInputs == {<<DigitChar(n)>> : n \in 0..MaxCount} \cup {<<"x">>}
ConfirmInputs == {<<"y">>, <<"Y", "e", "s">>, <<"n">>}
NameInputs == {<<>>, TxtTom}
BreedInputs == {<<>>, TxtMaineCoon}
AgeInputs == {<<"7">>}
ColorInputs == {TxtBlack}
WeightInputs == {<<"4", ".", "5">>}
IndoorInputs == {<<>>}
DateInputs == {<<>>}
DescriptionInputs == {<<>>}

\* ---------------------------------------------------------- specification

Init ==
    /\ table = <<>>
    /\ tableExists \in BOOLEAN
    /\ nextId = 1
    /\ txFailed = FALSE
    /\ prog = "none"
    /\ pc = "idle"
    /\ conn = "none"
    /\ exit = "0"
    /\ opt = ""
    /\ count = 0
    /\ cat_data = EmptyCat
    /\ cats_data = <<>>
    /\ msg = ""
    /\ last = NoAttempt
    /\ typed = NoEvent
    /\ raws = <<>>
    /\ ops = <<>>
    /\ cnt = 0
    /\ listing = <<>>

Next ==
    \/ WriterStart
    \/ Menu(MenuInputs)
    \/ CountPrompt(CountInputs)
    \/ NamePrompt(NameInputs)
    \/ BreedPrompt(BreedInputs)
    \/ AgePrompt(AgeInputs)
    \/ ColorPrompt(ColorInputs)
    \/ WeightPrompt(WeightInputs)
    \/ IndoorPrompt(IndoorInputs)
    \/ DatePrompt(DateInputs)
    \/ DescriptionPrompt(DescriptionInputs)
    \/ ConfirmPrompt(ConfirmInputs)
    \/ ReaderStart
    \/ ReaderCheck
    \/ ReaderInfo
    \/ ReaderCount
    \/ ReaderList
    \/ ReaderSummary
    \/ ReaderSearch
    \/ ReaderClose

Spec == Init /\ [][Next]_vars

\* -------------------------------------------- one record, entered and inserted
\* get_user_input_for_cat and the confirmation that follows it, from the name
\* prompt of option 1, or of option 2 with a count of 1, over a wider choice
\* of lines.

NameInputsWide == {<<>>, <<" ">>, <<" ", "T", "o", "m", " ">>}
BreedInputsWide == {<<>>, TxtMaineCoon}
AgeInputsWide ==
    {<<>>, <<"0">>, <<" ", "3", "0", " ">>, <<"3", "1">>, <<"-", "1">>,
     <<"7", ".", "5">>, <<"a", "b", "c">>}
ColorInputsWide == {<<" ">>, TxtBlack}
WeightInputsWide ==
    {<<>>, <<"2", "0", ".", "0">>, <<"2", "0", ".", "5">>, <<"2", "0", ".", "0", "1">>,
     <<"-", "0", ".", "5">>, <<"N", "a", "N">>, <<"i", "n", "f">>,
     <<"-", "i", "n", "f">>, <<"a", "b", "c">>}
IndoorInputsWide == {<<>>, <<"Y", "E", "S">>, <<"n">>, <<"m", "a", "y", "b", "e">>}
DateInputsWide ==
    {<<>>, <<"2", "0", "2", "4", "-", "2", "-", "2", "9">>,
     <<"2", "0", "2", "3", "-", "0", "2", "-", "2", "9">>,
     <<"2", "0", "2", "4", "-", "1", "3", "-", "0", "1">>,
     <<"2", "9", "/", "0", "2", "/", "2", "0", "2", "4">>}
DescriptionInputsWide == {<<>>, TxtCalm}
ConfirmInputsWide == {<<" ", "Y", "e", "s", " ">>, <<"n">>}

InitEntry ==
    /\ table = <<>>
    /\ tableExists = TRUE
    /\ nextId = 1
    /\ txFailed = FALSE
    /\ prog = "writer"
    /\ pc = "name"
    /\ conn = "open"
    /\ exit = "running"
    /\ opt \in {"1", "2"}
    /\ count = IF opt = "2" THEN 1 ELSE 0
    /\ cat_data = EmptyCat
    /\ cats_data = <<>>
    /\ msg = ""
    /\ last = NoAttempt
    /\ typed = Line(<<opt>>)
    /\ raws = <<>>
    /\ ops = <<>>
    /\ cnt = 0
    /\ listing = <<>>

NextEntry ==
    \/ NamePrompt(NameInputsWide)
    \/ BreedPrompt(BreedInputsWide)
    \/ AgePrompt(AgeInputsWide)
    \/ ColorPrompt(ColorInputsWide)
    \/ WeightPrompt(WeightInputsWide)
    \/ IndoorPrompt(IndoorInputsWide)
    \/ DatePrompt(DateInputsWide)
    \/ DescriptionPrompt(DescriptionInputsWide)
    \/ ConfirmPrompt(ConfirmInputsWide)

SpecEntry == InitEntry /\ [][NextEntry]_vars

\* ------------------------------------------------------------------ claims

BatchOptions == {"2", "3"}
Succeeded(attempts) == {i \in 1..Len(attempts) : attempts[i].ok}

\* C1: a confirmed batch of N records of which K fail is attempted record by
\* record in order, reports N - K successes, and leaves exactly N - K new
\* rows committed.
C1_BatchCommitsEverySuccess ==
    (last.confirmed /\ last.opt \in BatchOptions) =>
        /\ Len(last.attempts) = Len(last.batch)
        /\ \A i \in 1..Len(last.batch) : last.attempts[i].cat = last.batch[i]
        /\ last.success_count = Cardinality(Succeeded(last.attempts))
        /\ last.added = last.success_count

\* C2: a confirmed insert attempt issues exactly one of commit and rollback:
\* rollback when the success count is zero, commit otherwise.
C2_CommitOrRollback ==
    last.confirmed =>
        /\ Len(last.calls) = 1
        /\ last.calls[1] \in {"commit", "rollback"}
        /\ (last.calls[1] = "rollback") <=> (last.success_count = 0)
        /\ last.success_count = Cardinality(Succeeded(last.attempts))

C2_Witness ==
    /\ last.confirmed /\ last.opt = "2" /\ Len(last.batch) = 2
    /\ last.success_count = 0 /\ last.calls = <<"rollback">>

\* C3: no run of either tool ends with the connection handle it obtained
\* still open.
C3_HandleReleased == (prog = "none") => (conn # "open")

C3_Witness ==
    /\ pc = "reader_exit" /\ exit = "1" /\ conn = "closed"
    /\ ops = <<Op("check_table_exists", "False")>>

AgeOk(age) == age = None \/ (age.t = "int" /\ age.v >= 0 /\ age.v <= 30)

PastAge ==
    \/ pc \in {"color", "weight", "indoor", "date", "description"}
    \/ pc = "confirm" /\ opt = "1"

\* C4: the age loop is left only with no age or an integer from 0 to 30; a
\* value kept at the prompt is one the loop refused; and every record that
\* reaches the insert call has such an age.
C4_AgeValidated ==
    /\ PastAge => AgeOk(cat_data.age)
    /\ (pc = "age" /\ cat_data.age # Unset) => ~AgeOk(cat_data.age)
    /\ \A i \in 1..Len(cats_data) : AgeOk(cats_data[i].age)
    /\ \A i \in 1..Len(last.attempts) : AgeOk(last.attempts[i].cat.age)
    /\ \A i \in 1..Len(table) : AgeOk(table[i].age)

C4_Witness ==
    /\ last.confirmed /\ last.attempts[1].ok
    /\ last.attempts[1].cat.age = Int_(30)
    /\ table[1].age = Int_(30)

WeightOk(w) ==
    w = None \/ (w.t = "float" /\ w.k = "fin" /\ w.m >= 0 /\ w.m <= 20 * Pow10(w.e))

PastWeight ==
    \/ pc \in {"indoor", "date", "description"}
    \/ pc = "confirm" /\ opt = "1"

\* C5: the weight loop is left only with no weight or a number from 0 to 20,
\* and every record that reaches the insert call has such a weight.
C5_WeightValidated ==
    /\ PastWeight => WeightOk(cat_data.weight_kg)
    /\ \A i \in 1..Len(cats_data) : WeightOk(cats_data[i].weight_kg)
    /\ \A i \in 1..Len(last.attempts) : WeightOk(last.attempts[i].cat.weight_kg)

\* C6: an empty name ends the entry of the record: the validation error is
\* reported, nothing more is prompted or inserted, and the menu is next.
C6_EmptyNameAborts ==
    [][(prog = "writer" /\ pc = "name" /\ typed'.k = "line" /\ Strip(typed'.s) = <<>>) =>
          /\ pc' = "menu" /\ prog' = "writer"
          /\ msg' = "Error: Cat name is required!"
          /\ ~last'.confirmed
          /\ table' = table]_vars

\* C7: an operator interrupt at a prompt of option 1, 2 or 3 is caught: nothing
\* is inserted and the Writer is back at its menu.
C7_InterruptReturnsToMenu ==
    [][(prog = "writer" /\ opt \in {"1", "2", "3"} /\ typed'.k = "KeyboardInterrupt") =>
          /\ pc' = "menu" /\ prog' = "writer"
          /\ ~last'.confirmed
          /\ table' = table]_vars

\* C8: once check_table_exists has answered False, the Reader has ended with
\* status 1 and has called nothing else.
C8_MissingTableEndsRun ==
    (\E i \in 1..Len(ops) : ops[i] = Op("check_table_exists", "False")) =>
        /\ prog = "none" /\ pc = "reader_exit" /\ exit = "1"
        /\ Len(ops) = 1

C8_Witness ==
    /\ ~tableExists
    /\ pc = "reader_exit" /\ exit = "1"
    /\ ops = <<Op("check_table_exists", "False")>>

ReaderOperations ==
    <<"check_table_exists", "get_table_info", "get_cats_count", "display_all_cats",
      "display_cats_summary", "search_cats_by_breed">>

\* C9: whatever the rows, a Reader run that counted rows calls every operation
\* of its sequence, and each operation traps its own failure.
C9_OperationsTolerant ==
    (pc = "reader_exit" /\ cnt > 0) =>
        /\ [i \in 1..Len(ops) |-> ops[i].op] = ReaderOperations
        /\ \A i \in 1..Len(ops) : ops[i].res # "TypeError"

Truthy == {<<>>, <<"y">>, <<"y", "e", "s">>, <<"1">>, <<"t", "r", "u", "e">>}

\* The block the full listing owes to a record typed as raw and inserted as id.
ExpectedBlock(id, raw) ==
    [id |-> id,
     name |-> Str(Strip(raw.name)),
     breed |-> IF Strip(raw.breed) = <<>> THEN None ELSE Str(Strip(raw.breed)),
     age |-> IF Strip(raw.age) = <<>> THEN None ELSE Int_(IntParse(raw.age).v),
     color |-> IF Strip(raw.color) = <<>> THEN None ELSE Str(Strip(raw.color)),
     weight |-> IF Strip(raw.weight) = <<>> THEN None ELSE FloatParse(raw.weight).v,
     status |-> IF Lower(Strip(raw.indoor)) \in Truthy THEN "Indoor" ELSE "Outdoor",
     adoption_date |-> IF Strip(raw.date) = <<>> THEN Today
                       ELSE ParseDate(Strip(raw.date)).v,
     description |-> IF Strip(raw.description) = <<>> THEN None
                     ELSE Str(Strip(raw.description))]

\* C10: every record typed, confirmed and inserted by the Writer is a block of
\* the Reader's next full listing, field by field as typed, with the defaults
\* for what was left empty.
C10_RoundTrip ==
    (\E k \in 1..Len(ops) : ops[k] = Op("display_all_cats", "ok")) =>
        \A i \in 1..Len(last.attempts) :
            (last.opt \in {"1", "2"} /\ last.attempts[i].ok) =>
                \E j \in 1..Len(listing) :
                    listing[j] = ExpectedBlock(last.attempts[i].id, last.raws[i])

Ids(rows) == {rows[i].id : i \in 1..Len(rows)}

\* C11: no step of either tool updates or deletes a committed row: the rows
\* of the table stay as they are, in place, a step of the Reader leaves the
\* table as it is, and the rows the Writer adds carry identifiers that no row
\* of the table has and that differ from each other.
C11_RowsOnlyAdded ==
    [][/\ Len(table') >= Len(table)
       /\ SubSeq(table', 1, Len(table)) = table
       /\ \A i \in (Len(table) + 1)..Len(table') :
             /\ table'[i].id \notin Ids(table)
             /\ \A j \in (Len(table) + 1)..Len(table') :
                   j # i => table'[j].id # table'[i].id
       /\ (prog = "reader" \/ prog' = "reader" \/ pc' = "reader_exit") =>
             table' = table]_vars

\* Two Writer attempts have each committed a row, the second next to the
\* first, and a Reader run has gone through all its operations since.
C11_Witness ==
    /\ pc = "reader_exit" /\ Len(ops) = 6
    /\ last.confirmed /\ last.added = 1
    /\ Len(table) = 2 /\ table[1].id = 1 /\ table[2].id = 2

OpNames == [i \in 1..Len(ops) |-> ops[i].op]

\* C12: the Reader calls its operations in the order check, info, count, list,
\* summary, search, each at most once; list, summary and search are called if
\* and only if the count obtained is greater than 0; and a run that obtained a
\* connection ends closed, after the missing table report or after the whole
\* of the sequence its count asks for.
C12_ReaderOrder ==
    /\ Len(ops) <= Len(ReaderOperations)
    /\ OpNames = SubSeq(ReaderOperations, 1, Len(ops))
    /\ (Len(ops) > 3) => (cnt > 0)
    /\ (pc = "reader_exit" /\ conn # "none") =>
          /\ conn = "closed"
          /\ \/ ops = <<Op("check_table_exists", "False")>>
             \/ Len(ops) = IF cnt > 0 THEN 6 ELSE 3

EntryPrompts ==
    {"name", "breed", "age", "color", "weight", "indoor", "date", "description"}

\* What ends the batch of option 2 before its inserts: an empty name, an
\* operator interrupt at a prompt of a record or at the confirmation, or a
\* confirmation other than y and yes.
BatchGivenUp ==
    \/ pc = "name" /\ typed'.k = "line" /\ Strip(typed'.s) = <<>>
    \/ pc \in EntryPrompts \cup {"confirm"} /\ typed'.k = "KeyboardInterrupt"
    \/ pc = "confirm" /\ typed'.k = "line"
          /\ Lower(Strip(typed'.s)) \notin {<<"y">>, <<"y", "e", "s">>}

\* C13: in option 2 a batch given up leaves the table and the sequence as they
\* were, with no insert, commit or rollback and the menu next, whatever was
\* entered before; inserts, commit and rollback happen only in the step of a
\* y or yes at the confirmation, when all count records are entered, and then
\* every record of the batch is attempted.
C13_BatchOnlyAfterConfirm ==
    [][(prog = "writer" /\ opt = "2") =>
          /\ BatchGivenUp =>
                /\ pc' = "menu" /\ prog' = "writer" /\ conn' = "open"
                /\ table' = table /\ nextId' = nextId
                /\ last' = NoAttempt
          /\ (table' # table \/ nextId' # nextId \/ last' # NoAttempt) =>
                /\ pc = "confirm" /\ count > 0 /\ Len(cats_data) = count
                /\ typed'.k = "line"
                /\ Lower(Strip(typed'.s)) \in {<<"y">>, <<"y", "e", "s">>}
                /\ last'.confirmed /\ last'.batch = cats_data
                /\ Len(last'.attempts) = count /\ Len(last'.calls) = 1]_vars

\* The batch of option 2 was given up at a name prompt by an empty line:
\* the menu is next and nothing was inserted, committed or rolled back.
C13_Witness ==
    /\ prog = "writer" /\ pc = "menu"
    /\ typed.k = "line" /\ Strip(typed.s) = <<>>
    /\ msg = "Please enter a valid number"
    /\ last = NoAttempt /\ table = <<>> /\ nextId = 1

====
